---- MODULE Spec2Model ----
(***************************************************************************)
(* A model of three resources of the client library:                       *)
(*   - ChatCompletion.create / acreate, the retry-on-warmup wrapper        *)
(*     (src/openai/api_resources/chat_completion.py);                      *)
(*   - Moderation.create / acreate, a facade without the wrapper           *)
(*     (src/openai/api_resources/moderation.py);                           *)
(*   - Logger.sync, the fine-tune job logger (src/openai/logger.py).       *)
(*                                                                         *)
(* Optional Python values are sets: None is {}, a value x is {x}.          *)
(***************************************************************************)
EXTENDS Integers, Sequences, FiniteSets, TLC

\* ------------------------------------------------------------------ bounds
\* Largest reading of time.time() the environment produces.
MaxClock == 3
\* Largest timeout (seconds) a caller passes.
MaxTimeout == 1
\* Cap on the dispatcher invocations of one call (the code has no cap).
MaxAttempts == 3
\* Largest number of fine-tune jobs FineTune.list() returns.
MaxJobs == 2
\* Cap on the number of calls of Logger.sync.
MaxSyncs == 2

\* ----------------------------------------------------------- Python values
None == {}
Some(x) == {x}
\* The value of an optional that is not None.
The(opt) == CHOOSE x \in opt : TRUE

\* ------------------------------------------------------------ ChatCompletion
\* One call per call surface; the call is named after its surface.
Calls == {"create", "acreate"}

Other(c) == IF c = "create" THEN "acreate" ELSE "create"

\* What a caller may pass as timeout: None or a number of seconds, which
\* may be zero or negative.
Timeouts == {None} \cup {Some(t) : t \in (-1)..MaxTimeout}

\* The caller's arguments other than timeout: nothing given, or everything.
ArgsNone ==
    [api_key |-> None, api_base |-> None, api_type |-> None,
     request_id |-> None, api_version |-> None, organization |-> None,
     model |-> None, messages |-> None, params |-> {}]

ArgsFull ==
    [api_key |-> Some("sk-key"), api_base |-> Some("https://base"),
     api_type |-> Some("azure"), request_id |-> Some("req-1"),
     api_version |-> Some("2023-05-15"), organization |-> Some("org-1"),
     model |-> Some("gpt-4"), messages |-> Some(<<"hello">>),
     params |-> {<<"temperature", "0">>, <<"stream", "False">>}]

CallerArgs ==
    {[a EXCEPT !.timeout = t] :
        a \in {[timeout |-> None] @@ b : b \in {ArgsNone, ArgsFull}},
        t \in Timeouts}

\* What the dispatcher (super().create / super().acreate) answers.
Responses == {"resp-1", "resp-2"}
OtherErrors == {"AuthenticationError", "RateLimitError"}
DispatcherOutcomes ==
    {<<"return", r>> : r \in Responses}
        \cup {<<"raise", e>> : e \in {"TryAgain"} \cup OtherErrors}

VARIABLES
    pc,        \* pc[c]: where call c is: idle, loop, inflight, except, done
    args,      \* args[c]: the arguments the caller passed to call c
    start,     \* start[c]: the local `start` of call c
    reads,     \* reads[c]: the readings of time.time() call c has made
    sent,      \* sent[c]: the keyword arguments of each dispatcher invocation
    outs,      \* outs[c]: the outcome of each dispatcher invocation
    events,    \* events[c]: what call c did, in order
    result     \* result[c]: <<"return", v>> or <<"raise", e>> once done

chatVars == <<pc, args, start, reads, sent, outs, events, result>>

VARIABLES
    modPc,        \* where the Moderation call is: idle, request, arequest, done
    modArgs,      \* the arguments of the Moderation call
    modInstances, \* the api_key of each Moderation instance constructed
    modRequests,  \* each request / arequest invocation made on an instance
    modOuts,      \* the outcome of each of those invocations
    modResult     \* <<"return", v>> or <<"raise", e>> once done

modVars == <<modPc, modArgs, modInstances, modRequests, modOuts, modResult>>

VARIABLES
    ftData,     \* FineTune.list()["data"]: None, or the list of job records
    runs,       \* runs[j]: the wandb run of job j: "none", or its summary status
    loggedIn,   \* Logger._logged_in
    wandbApi,   \* Logger._wandb_api is not None
    syncCount,  \* how many times Logger.sync was called
    syncArgs,   \* the arguments of the last call of Logger.sync
    syncLog,    \* what the last call of Logger.sync did, in order
    syncResult  \* how the last call of Logger.sync ended

logVars == <<ftData, runs, loggedIn, wandbApi, syncCount, syncArgs, syncLog, syncResult>>

vars == <<chatVars, modVars, logVars>>

InitChat ==
    /\ pc = [c \in Calls |-> "idle"]
    /\ args = [c \in Calls |-> [timeout |-> None] @@ ArgsNone]
    /\ start = [c \in Calls |-> 0]
    /\ reads = [c \in Calls |-> <<>>]
    /\ sent = [c \in Calls |-> <<>>]
    /\ outs = [c \in Calls |-> <<>>]
    /\ events = [c \in Calls |-> <<>>]
    /\ result = [c \in Calls |-> <<"none", "none">>]

InitModeration ==
    /\ modPc = "idle"
    /\ modArgs = [input |-> "", model |-> None, api_key |-> None]
    /\ modInstances = <<>>
    /\ modRequests = <<>>
    /\ modOuts = <<>>
    /\ modResult = <<"none", "none">>

\* ---- the fine-tune jobs the API holds

JobIds == 1..(MaxJobs + 1)

\* The files of job j; a job may lack any of the three lists.
ResultFiles(j) == <<[id |-> <<"result", j>>]>>
TrainingFiles(j) == <<[id |-> <<"train", j>>]>>
ValidationFiles(j) == <<[id |-> <<"valid", j>>]>>

\* The job records position j of the list can hold.
JobRecords(j) ==
    {[id |-> j, status |-> "succeeded", result_files |-> ResultFiles(j),
      training_files |-> TrainingFiles(j), validation_files |-> ValidationFiles(j)],
     [id |-> j, status |-> "succeeded", result_files |-> ResultFiles(j),
      training_files |-> <<>>, validation_files |-> ValidationFiles(j)],
     [id |-> j, status |-> "succeeded", result_files |-> ResultFiles(j),
      training_files |-> TrainingFiles(j), validation_files |-> <<>>],
     [id |-> j, status |-> "failed", result_files |-> ResultFiles(j),
      training_files |-> TrainingFiles(j), validation_files |-> ValidationFiles(j)],
     [id |-> j, status |-> "failed", result_files |-> <<>>,
      training_files |-> TrainingFiles(j), validation_files |-> ValidationFiles(j)]}

\* The lists of at most MaxJobs jobs, oldest first.
JobLists ==
    UNION {{l \in [1..n -> UNION {JobRecords(j) : j \in 1..MaxJobs}] :
                \A j \in 1..n : l[j] \in JobRecords(j)} : n \in 0..MaxJobs}

\* What FineTune.list() can hold: no data, or a list of jobs.
Listings == {None} \cup {Some(l) : l \in JobLists}

InitLogger ==
    /\ runs = [j \in JobIds |-> "none"]
    /\ loggedIn = FALSE
    /\ wandbApi = FALSE
    /\ syncCount = 0
    /\ syncArgs = [id |-> None, n_jobs |-> None, force |-> FALSE]
    /\ syncLog = <<>>
    /\ syncResult = <<"none", "none">>

\* The clients before any call; the API holds no fine-tune job.
Init == InitChat /\ InitModeration /\ InitLogger /\ ftData = None

\* The same, with any listing of fine-tune jobs at the API.
InitWithJobs == InitChat /\ InitModeration /\ InitLogger /\ ftData \in Listings

\* The readings time.time() can return to call c next: the clock does not run
\* backwards within a call.
Readings(c) ==
    IF reads[c] = <<>> THEN 0..MaxClock
    ELSE reads[c][Len(reads[c])]..MaxClock

\* ---- ChatCompletion.create (blocking)

\* A bug: the extra keyword parameters are not passed on.
CreateKwargsWithoutParams(a) ==
    [api_key |-> a.api_key, api_base |-> a.api_base, api_type |-> a.api_type,
     api_version |-> a.api_version, request_id |-> a.request_id,
     organization |-> a.organization, model |-> a.model,
     messages |-> a.messages, params |-> {}]

\* The keyword arguments create passes to super().create.
CreateKwargs(a) ==
    [api_key |-> a.api_key, api_base |-> a.api_base, api_type |-> a.api_type,
     api_version |-> a.api_version, request_id |-> a.request_id,
     organization |-> a.organization, model |-> a.model,
     messages |-> a.messages, params |-> a.params]

\* A bug: the handler is missing, so TryAgain is not caught.
CreateCatchesNothing(e) == FALSE

\* except TryAgain as e
CreateCatches(e) == e = "TryAgain"

\* A bug: the deadline is never found to have passed.
CreateTimedOutNever(timeout, now, st) == FALSE

\* A bug: the deadline is compared with >= instead of >.
CreateTimedOutAtDeadline(timeout, now, st) ==
    timeout # None /\ \A T \in timeout : now >= st + T

\* timeout is not None and time.time() > start + timeout
CreateTimedOut(timeout, now, st) ==
    timeout # None /\ \A T \in timeout : now > st + T

\* A bug: start is kept where every call sees it (a class attribute).
CreateCallSharedStart(a, t) ==
    /\ pc["create"] = "idle"
    /\ pc' = [pc EXCEPT !["create"] = "loop"]
    /\ args' = [args EXCEPT !["create"] = a]
    /\ start' = [c \in Calls |-> t]
    /\ reads' = [reads EXCEPT !["create"] = Append(@, t)]
    /\ events' = [events EXCEPT !["create"] = Append(@, "time")]
    /\ UNCHANGED <<sent, outs, result, modVars, logVars>>

\* A bug: the deadline is tested before the first attempt, so a timeout that
\* has already expired ends the call with no dispatcher invocation.
CreateCallTestsDeadline(a, t) ==
    /\ pc["create"] = "idle"
    /\ args' = [args EXCEPT !["create"] = a]
    /\ start' = [start EXCEPT !["create"] = t]
    /\ reads' = [reads EXCEPT !["create"] = Append(@, t)]
    /\ events' = [events EXCEPT !["create"] = Append(@, "time")]
    /\ IF a.timeout # None /\ \A T \in a.timeout : T <= 0
       THEN /\ pc' = [pc EXCEPT !["create"] = "done"]
            /\ result' = [result EXCEPT !["create"] = <<"raise", "TryAgain">>]
       ELSE /\ pc' = [pc EXCEPT !["create"] = "loop"]
            /\ UNCHANGED result
    /\ UNCHANGED <<sent, outs, modVars, logVars>>

\* start = time.time()
CreateCall(a, t) ==
    /\ pc["create"] = "idle"
    /\ pc' = [pc EXCEPT !["create"] = "loop"]
    /\ args' = [args EXCEPT !["create"] = a]
    /\ start' = [start EXCEPT !["create"] = t]
    /\ reads' = [reads EXCEPT !["create"] = Append(@, t)]
    /\ events' = [events EXCEPT !["create"] = Append(@, "time")]
    /\ UNCHANGED <<sent, outs, result, modVars, logVars>>

\* while True: try: super().create(...) is entered
CreateInvoke ==
    /\ pc["create"] = "loop"
    /\ Len(sent["create"]) < MaxAttempts
    /\ pc' = [pc EXCEPT !["create"] = "inflight"]
    /\ sent' = [sent EXCEPT !["create"] = Append(@, CreateKwargs(args["create"]))]
    /\ events' = [events EXCEPT !["create"] = Append(@, "dispatch")]
    /\ UNCHANGED <<args, start, reads, outs, result, modVars, logVars>>

\* super().create(...) returns a value or raises
CreateRespond(o) ==
    /\ pc["create"] = "inflight"
    /\ outs' = [outs EXCEPT !["create"] = Append(@, o)]
    /\ IF o[1] = "return"
       THEN /\ pc' = [pc EXCEPT !["create"] = "done"]
            /\ result' = [result EXCEPT !["create"] = o]
            /\ events' = [events EXCEPT !["create"] = Append(@, "return")]
       ELSE IF CreateCatches(o[2])
       THEN /\ pc' = [pc EXCEPT !["create"] = "except"]
            /\ events' = [events EXCEPT !["create"] = Append(@, o[2])]
            /\ UNCHANGED result
       ELSE /\ pc' = [pc EXCEPT !["create"] = "done"]
            /\ result' = [result EXCEPT !["create"] = o]
            /\ events' = [events EXCEPT !["create"] = Append(@, "raise")]
    /\ UNCHANGED <<args, start, reads, sent, modVars, logVars>>

\* A change of the code: the handler sleeps after log_info, before it loops.
CreateExceptThenSleeps(t) ==
    /\ pc["create"] = "except"
    /\ LET timeout == args["create"].timeout
           e == outs["create"][Len(outs["create"])]
       IN  /\ reads' = [reads EXCEPT !["create"] =
                            IF timeout # None THEN Append(@, t) ELSE @]
           /\ IF CreateTimedOut(timeout, t, start["create"])
              THEN /\ pc' = [pc EXCEPT !["create"] = "done"]
                   /\ result' = [result EXCEPT !["create"] = e]
                   /\ events' = [events EXCEPT !["create"] = Append(@, "raise")]
              ELSE /\ pc' = [pc EXCEPT !["create"] = "loop"]
                   /\ events' = [events EXCEPT !["create"] = @ \o <<"log_info", "sleep">>]
                   /\ UNCHANGED result
    /\ UNCHANGED <<args, start, sent, outs, modVars, logVars>>

\* A bug: the handler logs before the deadline test, so also when it raises.
CreateExceptLogsFirst(t) ==
    /\ pc["create"] = "except"
    /\ LET timeout == args["create"].timeout
           e == outs["create"][Len(outs["create"])]
       IN  /\ reads' = [reads EXCEPT !["create"] =
                            IF timeout # None THEN Append(@, t) ELSE @]
           /\ IF CreateTimedOut(timeout, t, start["create"])
              THEN /\ pc' = [pc EXCEPT !["create"] = "done"]
                   /\ result' = [result EXCEPT !["create"] = e]
                   /\ events' = [events EXCEPT !["create"] = @ \o <<"log_info", "raise">>]
              ELSE /\ pc' = [pc EXCEPT !["create"] = "loop"]
                   /\ events' = [events EXCEPT !["create"] = Append(@, "log_info")]
                   /\ UNCHANGED result
    /\ UNCHANGED <<args, start, sent, outs, modVars, logVars>>

\* The handler of TryAgain: the deadline test, then raise or log_info and loop.
\* time.time() is read only when a timeout was given (`and` short-circuits).
CreateExcept(t) ==
    /\ pc["create"] = "except"
    /\ LET timeout == args["create"].timeout
           e == outs["create"][Len(outs["create"])]
       IN  /\ reads' = [reads EXCEPT !["create"] =
                            IF timeout # None THEN Append(@, t) ELSE @]
           /\ IF CreateTimedOut(timeout, t, start["create"])
              THEN /\ pc' = [pc EXCEPT !["create"] = "done"]
                   /\ result' = [result EXCEPT !["create"] = e]
                   /\ events' = [events EXCEPT !["create"] = Append(@, "raise")]
              ELSE /\ pc' = [pc EXCEPT !["create"] = "loop"]
                   /\ events' = [events EXCEPT !["create"] = Append(@, "log_info")]
                   /\ UNCHANGED result
    /\ UNCHANGED <<args, start, sent, outs, modVars, logVars>>

\* ---- ChatCompletion.acreate (coroutine)

\* The keyword arguments acreate passes to super().acreate.
AcreateKwargs(a) ==
    [api_key |-> a.api_key, api_base |-> a.api_base, api_type |-> a.api_type,
     api_version |-> a.api_version, request_id |-> a.request_id,
     organization |-> a.organization, model |-> a.model,
     messages |-> a.messages, params |-> a.params]

\* A bug: a bare except, which catches CancelledError and every other error.
AcreateCatchesAll(e) == TRUE

\* A bug: except Exception, which catches every error but CancelledError.
AcreateCatchesException(e) == e # "CancelledError"

\* except TryAgain as e
AcreateCatches(e) == e = "TryAgain"

\* A bug: the deadline is compared with >= in acreate only.
AcreateTimedOutAtDeadline(timeout, now, st) ==
    timeout # None /\ \A T \in timeout : now >= st + T

\* timeout is not None and time.time() > start + timeout
AcreateTimedOut(timeout, now, st) ==
    timeout # None /\ \A T \in timeout : now > st + T

\* start = time.time()
AcreateCall(a, t) ==
    /\ pc["acreate"] = "idle"
    /\ pc' = [pc EXCEPT !["acreate"] = "loop"]
    /\ args' = [args EXCEPT !["acreate"] = a]
    /\ start' = [start EXCEPT !["acreate"] = t]
    /\ reads' = [reads EXCEPT !["acreate"] = Append(@, t)]
    /\ events' = [events EXCEPT !["acreate"] = Append(@, "time")]
    /\ UNCHANGED <<sent, outs, result, modVars, logVars>>

\* while True: try: await super().acreate(...) is entered and suspends
AcreateInvoke ==
    /\ pc["acreate"] = "loop"
    /\ Len(sent["acreate"]) < MaxAttempts
    /\ pc' = [pc EXCEPT !["acreate"] = "inflight"]
    /\ sent' = [sent EXCEPT !["acreate"] = Append(@, AcreateKwargs(args["acreate"]))]
    /\ events' = [events EXCEPT !["acreate"] = Append(@, "dispatch")]
    /\ UNCHANGED <<args, start, reads, outs, result, modVars, logVars>>

\* The await ends with outcome o: a value, or an exception thrown at the await.
AcreateResume(o) ==
    IF o[1] = "return"
    THEN /\ pc' = [pc EXCEPT !["acreate"] = "done"]
         /\ result' = [result EXCEPT !["acreate"] = o]
         /\ events' = [events EXCEPT !["acreate"] = Append(@, "return")]
    ELSE IF AcreateCatches(o[2])
    THEN /\ pc' = [pc EXCEPT !["acreate"] = "except"]
         /\ events' = [events EXCEPT !["acreate"] = Append(@, o[2])]
         /\ UNCHANGED result
    ELSE /\ pc' = [pc EXCEPT !["acreate"] = "done"]
         /\ result' = [result EXCEPT !["acreate"] = o]
         /\ events' = [events EXCEPT !["acreate"] = Append(@, "raise")]

\* await super().acreate(...) returns a value or raises
AcreateRespond(o) ==
    /\ pc["acreate"] = "inflight"
    /\ outs' = [outs EXCEPT !["acreate"] = Append(@, o)]
    /\ AcreateResume(o)
    /\ UNCHANGED <<args, start, reads, sent, modVars, logVars>>

\* The caller cancels the call while it is suspended at the await:
\* asyncio throws CancelledError into the coroutine there.
AcreateCancel ==
    /\ pc["acreate"] = "inflight"
    /\ outs' = [outs EXCEPT !["acreate"] = Append(@, <<"raise", "CancelledError">>)]
    /\ AcreateResume(<<"raise", "CancelledError">>)
    /\ UNCHANGED <<args, start, reads, sent, modVars, logVars>>

\* The handler of TryAgain in acreate.
AcreateExcept(t) ==
    /\ pc["acreate"] = "except"
    /\ LET timeout == args["acreate"].timeout
           e == outs["acreate"][Len(outs["acreate"])]
       IN  /\ reads' = [reads EXCEPT !["acreate"] =
                            IF timeout # None THEN Append(@, t) ELSE @]
           /\ IF AcreateTimedOut(timeout, t, start["acreate"])
              THEN /\ pc' = [pc EXCEPT !["acreate"] = "done"]
                   /\ result' = [result EXCEPT !["acreate"] = e]
                   /\ events' = [events EXCEPT !["acreate"] = Append(@, "raise")]
              ELSE /\ pc' = [pc EXCEPT !["acreate"] = "loop"]
                   /\ events' = [events EXCEPT !["acreate"] = Append(@, "log_info")]
                   /\ UNCHANGED result
    /\ UNCHANGED <<args, start, sent, outs, modVars, logVars>>

\* ---- one call, through either surface

\* A single caller makes one call: the other surface stays idle.
Alone(c) == pc[Other(c)] = "idle"

NextChat ==
    \/ \E a \in CallerArgs, t \in Readings("create") :
            Alone("create") /\ CreateCall(a, t)
    \/ CreateInvoke
    \/ \E o \in DispatcherOutcomes : CreateRespond(o)
    \/ \E t \in Readings("create") : CreateExcept(t)
    \/ \E a \in CallerArgs, t \in Readings("acreate") :
            Alone("acreate") /\ AcreateCall(a, t)
    \/ AcreateInvoke
    \/ \E o \in DispatcherOutcomes : AcreateRespond(o)
    \/ AcreateCancel
    \/ \E t \in Readings("acreate") : AcreateExcept(t)

SpecChat == Init /\ [][NextChat]_vars

\* ---- the same call made through both surfaces

\* Both calls are given the same arguments and the same first clock reading.
SameCall(c, a, t) ==
    pc[Other(c)] # "idle" => a = args[Other(c)] /\ t = reads[Other(c)][1]

\* The i-th dispatcher invocation ends the same way for both calls.
SameOutcome(c, o) ==
    LET i == Len(outs[c]) + 1
    IN  Len(outs[Other(c)]) >= i => o = outs[Other(c)][i]

\* The j-th reading of time.time() is the same for both calls.
SameReading(c, t) ==
    LET j == Len(reads[c]) + 1
    IN  Len(reads[Other(c)]) >= j => t = reads[Other(c)][j]

NextPair ==
    \/ \E a \in CallerArgs, t \in Readings("create") :
            SameCall("create", a, t) /\ CreateCall(a, t)
    \/ CreateInvoke
    \/ \E o \in DispatcherOutcomes :
            SameOutcome("create", o) /\ CreateRespond(o)
    \/ \E t \in Readings("create") :
            SameReading("create", t) /\ CreateExcept(t)
    \/ \E a \in CallerArgs, t \in Readings("acreate") :
            SameCall("acreate", a, t) /\ AcreateCall(a, t)
    \/ AcreateInvoke
    \/ \E o \in DispatcherOutcomes :
            SameOutcome("acreate", o) /\ AcreateRespond(o)
    \/ \E t \in Readings("acreate") :
            SameReading("acreate", t) /\ AcreateExcept(t)

SpecPair == Init /\ [][NextPair]_vars

\* ---- one call of create in an environment that lets it end

\* The call starts early enough for the clock to pass any deadline.
EarlyReadings == 0..(MaxClock - MaxTimeout - 1)

\* The last invocation the cap allows is under way or has just raised.
LastAttempt == Len(sent["create"]) = MaxAttempts

\* The dispatcher eventually produces an outcome other than TryAgain, unless
\* a timeout is set.
EventuallyOtherOutcome(o) ==
    (LastAttempt /\ args["create"].timeout = None) => o # <<"raise", "TryAgain">>

\* The clock eventually passes start + timeout.
EventuallyPastDeadline(t) ==
    (LastAttempt /\ args["create"].timeout # None)
        => t > start["create"] + The(args["create"].timeout)

NextEnding ==
    \/ \E a \in CallerArgs, t \in EarlyReadings : CreateCall(a, t)
    \/ CreateInvoke
    \/ \E o \in DispatcherOutcomes : EventuallyOtherOutcome(o) /\ CreateRespond(o)
    \/ \E t \in Readings("create") : EventuallyPastDeadline(t) /\ CreateExcept(t)

\* create runs on its caller's thread, which goes on running, and the
\* dispatcher answers every invocation.
FairEnding ==
    /\ WF_vars(CreateInvoke)
    /\ WF_vars(\E o \in DispatcherOutcomes :
                  EventuallyOtherOutcome(o) /\ CreateRespond(o))
    /\ WF_vars(\E t \in Readings("create") :
                  EventuallyPastDeadline(t) /\ CreateExcept(t))

SpecEnding == Init /\ [][NextEnding]_vars /\ FairEnding

\* ---- two concurrent calls, each with its own environment

\* The callers of the two concurrent calls pass a timeout and nothing else.
ConcurrentArgs == {a \in CallerArgs : a.params = {}}

\* What the dispatcher answers to the two concurrent calls.
ConcurrentOutcomes ==
    {<<"return", "resp-1">>, <<"raise", "TryAgain">>,
     <<"raise", "AuthenticationError">>}

NextConcurrent ==
    \/ \E a \in ConcurrentArgs, t \in Readings("create") :
            CreateCall(a, t)
    \/ CreateInvoke
    \/ \E o \in ConcurrentOutcomes : CreateRespond(o)
    \/ \E t \in Readings("create") : CreateExcept(t)
    \/ \E a \in ConcurrentArgs, t \in Readings("acreate") : AcreateCall(a, t)
    \/ AcreateInvoke
    \/ \E o \in ConcurrentOutcomes : AcreateRespond(o)
    \/ \E t \in Readings("acreate") : AcreateExcept(t)

SpecConcurrent == Init /\ [][NextConcurrent]_vars

\* ---------------------------------------------------------------- Moderation

\* VALID_MODEL_NAMES
ValidModelNames == {"text-moderation-stable", "text-moderation-latest"}

\* What a caller may pass to Moderation.create / acreate.
ModerationInputs == {"some text", ""}
ModerationModels ==
    {None} \cup {Some(m) : m \in ValidModelNames \cup {"not-a-real-model", ""}}
ModerationKeys == {None, Some("sk-key")}

\* get_url
GetUrl == "/moderations"

\* A bug: the model name is not validated.
ModelRejectedNever(model) == FALSE

\* if model is not None and model not in cls.VALID_MODEL_NAMES
ModelRejected(model) ==
    model # None /\ \A m \in model : m \notin ValidModelNames

\* A bug: a model that was not given is sent as the latest one.
PrepareCreateDefaultsModel(input, model, api_key) ==
    IF ModelRejected(model)
    THEN [raises |-> Some("ValueError"), instance |-> None, params |-> {}]
    ELSE [raises |-> None,
          instance |-> Some(api_key),
          params |-> {<<"input", input>>}
                        \cup {<<"model", m>> : m \in
                                 IF model = None
                                 THEN Some("text-moderation-latest") ELSE model}]

\* _prepare_create: the error it raises, or the instance and the parameters.
PrepareCreate(input, model, api_key) ==
    IF ModelRejected(model)
    THEN [raises |-> Some("ValueError"), instance |-> None, params |-> {}]
    ELSE [raises |-> None,
          instance |-> Some(api_key),
          params |-> {<<"input", input>>}
                        \cup {<<"model", m>> : m \in model}]

\* Moderation.create, up to the point where instance.request is entered.
ModerationCreate(input, model, api_key) ==
    /\ modPc = "idle"
    /\ modArgs' = [input |-> input, model |-> model, api_key |-> api_key]
    /\ LET p == PrepareCreate(input, model, api_key)
       IN  IF p.raises # None
           THEN /\ modPc' = "done"
                /\ modResult' = <<"raise", CHOOSE e \in p.raises : TRUE>>
                /\ UNCHANGED <<modInstances, modRequests>>
           ELSE /\ modPc' = "request"
                /\ modInstances' = Append(modInstances, api_key)
                /\ modRequests' = Append(modRequests,
                        [call |-> "request", method |-> "post",
                         url |-> GetUrl, params |-> p.params])
                /\ UNCHANGED modResult
    /\ UNCHANGED <<modOuts, chatVars, logVars>>

\* Moderation.acreate, up to the point where instance.arequest is entered.
ModerationAcreate(input, model, api_key) ==
    /\ modPc = "idle"
    /\ modArgs' = [input |-> input, model |-> model, api_key |-> api_key]
    /\ LET p == PrepareCreate(input, model, api_key)
       IN  IF p.raises # None
           THEN /\ modPc' = "done"
                /\ modResult' = <<"raise", CHOOSE e \in p.raises : TRUE>>
                /\ UNCHANGED <<modInstances, modRequests>>
           ELSE /\ modPc' = "arequest"
                /\ modInstances' = Append(modInstances, api_key)
                /\ modRequests' = Append(modRequests,
                        [call |-> "arequest", method |-> "post",
                         url |-> GetUrl, params |-> p.params])
                /\ UNCHANGED modResult
    /\ UNCHANGED <<modOuts, chatVars, logVars>>

\* A bug: TryAgain is retried, as the retry wrapper does.
ModerationRequestRetried(o) ==
    /\ modPc = "request"
    /\ modOuts' = Append(modOuts, o)
    /\ IF o = <<"raise", "TryAgain">> /\ Len(modRequests) < MaxAttempts
       THEN /\ modRequests' = Append(modRequests, modRequests[Len(modRequests)])
            /\ UNCHANGED <<modPc, modResult>>
       ELSE /\ modPc' = "done"
            /\ modResult' = o
            /\ UNCHANGED modRequests
    /\ UNCHANGED <<modArgs, modInstances, chatVars, logVars>>

\* return instance.request(...): its value is returned, its error propagates.
ModerationRequestEnds(o) ==
    /\ modPc = "request"
    /\ modOuts' = Append(modOuts, o)
    /\ modPc' = "done"
    /\ modResult' = o
    /\ UNCHANGED <<modArgs, modInstances, modRequests, chatVars, logVars>>

\* return instance.arequest(...): the caller awaits what acreate returned.
ModerationArequestEnds(o) ==
    /\ modPc = "arequest"
    /\ modOuts' = Append(modOuts, o)
    /\ modPc' = "done"
    /\ modResult' = o
    /\ UNCHANGED <<modArgs, modInstances, modRequests, chatVars, logVars>>

NextModeration ==
    \/ \E input \in ModerationInputs, model \in ModerationModels,
          api_key \in ModerationKeys : ModerationCreate(input, model, api_key)
    \/ \E input \in ModerationInputs, model \in ModerationModels,
          api_key \in ModerationKeys : ModerationAcreate(input, model, api_key)
    \/ \E o \in DispatcherOutcomes : ModerationRequestEnds(o)
    \/ \E o \in DispatcherOutcomes : ModerationArequestEnds(o)

SpecModeration == Init /\ [][NextModeration]_vars

\* -------------------------------------------------------------------- Logger

\* What a caller may pass to Logger.sync.
SyncIds == {None} \cup {Some(j) : j \in JobIds}
SyncNJobs == {None} \cup {Some(k) : k \in 0..(MaxJobs + 1)}

\* An entry of syncLog: what was done, for which job, with what.
Ev(kind, j, detail) == <<kind, j, detail>>

\* fine_tunes["data"][-n_jobs if n_jobs is not None else None :]
LastJobs(data, n_jobs) ==
    IF n_jobs = None THEN data
    ELSE LET k == The(n_jobs)
         IN  IF k = 0 \/ k >= Len(data) THEN data
             ELSE SubSeq(data, Len(data) - k + 1, Len(data))

\* _ensure_logged_in; loginOk is what wandb.login() returns.
EnsureLoggedIn(st, loginOk) ==
    IF st.loggedIn THEN st
    ELSE IF loginOk THEN [st EXCEPT !.loggedIn = TRUE]
    ELSE [st EXCEPT !.err = Some("Exception")]

\* _log_artifact_inputs; file is None or the file record. file["id"] raises
\* TypeError on None. File.download is taken to succeed.
LogArtifactInputs(st, file, j, artifact_type) ==
    IF st.err # None THEN st
    ELSE IF file = None THEN [st EXCEPT !.err = Some("TypeError")]
    ELSE [st EXCEPT !.log = @ \o <<Ev("download", j, artifact_type),
                                    Ev("use_artifact", j, artifact_type)>>]

\* _log_artifacts
LogArtifacts(st, ft) ==
    LET training_file ==
            IF Len(ft.training_files) > 0 THEN Some(ft.training_files[1]) ELSE None
        validation_file ==
            IF Len(ft.validation_files) > 0 THEN Some(ft.validation_files[1]) ELSE None
        s1 == LogArtifactInputs(st, training_file, ft.id, "training_files")
        s2 == LogArtifactInputs(s1, validation_file, ft.id, "validation_files")
    IN  IF s2.err # None THEN s2
        ELSE [s2 EXCEPT !.log = Append(@, Ev("log_artifact", ft.id, "job_details"))]

\* A bug: a run that is marked as succeeded is logged again.
ReturnsAsLoggedNever(wandb_status, force) == FALSE

\* if wandb_status == "succeeded": return
ReturnsAsLogged(wandb_status, force) == wandb_status = "succeeded"

\* _log_fine_tune from "retrieve results" on: the run is started, filled
\* and marked as complete.
LogRun(st, ft) ==
    IF ft.result_files = <<>> THEN [st EXCEPT !.err = Some("IndexError")]
    ELSE LET j == ft.id
             s1 == [st EXCEPT !.log = @ \o <<Ev("download", j, "result_files"),
                                              Ev("init", j, "finetune")>>,
                              !.runs[j] = "running"]
             s2 == LogArtifacts(s1, ft)
         IN  IF s2.err # None THEN s2
             ELSE [s2 EXCEPT !.log = @ \o <<Ev("status", j, "succeeded"),
                                             Ev("finish", j, "finetune")>>,
                             !.runs[j] = "succeeded",
                             !.logged = TRUE]

\* _log_fine_tune
LogFineTune(st0, ft, force, show_warnings, loginOk) ==
    LET j == ft.id
        st == [st0 EXCEPT !.log = Append(@, Ev("job", j, ft.status))]
    IN  IF show_warnings /\ ft.status # "succeeded" THEN st
        ELSE LET s1 == EnsureLoggedIn(st, loginOk)
             IN  IF s1.err # None THEN s1
                 ELSE LET s2 == [s1 EXCEPT !.wandbApi = TRUE]
                          wandb_status == s2.runs[j]
                          s3 == [s2 EXCEPT !.log = Append(@, Ev("found", j, wandb_status))]
                      IN  IF wandb_status = "none" THEN LogRun(s2, ft)
                          ELSE IF ReturnsAsLogged(wandb_status, force) THEN s3
                          ELSE LogRun(s3, ft)

\* The list comprehension of sync: _log_fine_tune for each job, oldest
\* first; an error ends it.
RECURSIVE LogAll(_, _, _, _, _, _)
LogAll(st, fine_tunes, i, force, show_warnings, loginOk) ==
    IF i > Len(fine_tunes) \/ st.err # None THEN st
    ELSE LogAll(LogFineTune(st, fine_tunes[i], force, show_warnings, loginOk),
                fine_tunes, i + 1, force, show_warnings, loginOk)

\* FineTune.retrieve(id=id): the job, or None when the API knows no such job.
Retrieve(id) ==
    IF ftData = None THEN None
    ELSE LET data == The(ftData)
         IN  {data[i] : i \in {i \in 1..Len(data) : data[i].id = The(id)}}

\* Logger.sync
Sync(id, n_jobs, force, loginOk) ==
    /\ syncCount < MaxSyncs
    /\ syncCount' = syncCount + 1
    /\ syncArgs' = [id |-> id, n_jobs |-> n_jobs, force |-> force]
    /\ LET st0 == [runs |-> runs, loggedIn |-> loggedIn, wandbApi |-> wandbApi,
                   log |-> <<>>, err |-> None, logged |-> FALSE]
           show_warnings == ~(id = None /\ n_jobs = None)
           found == id # None /\ Retrieve(id) # None
           fine_tunes == IF id # None THEN <<The(Retrieve(id))>>
                         ELSE LastJobs(The(ftData), n_jobs)
           st == LogAll(st0, fine_tunes, 1, force, show_warnings, loginOk)
       IN  IF id # None /\ ~found
           THEN /\ syncResult' = <<"raise", "InvalidRequestError">>
                /\ syncLog' = <<>>
                /\ UNCHANGED <<runs, loggedIn, wandbApi>>
           ELSE IF id = None /\ ftData = None
           THEN /\ syncResult' = <<"return", "None">>
                /\ syncLog' = <<>>
                /\ UNCHANGED <<runs, loggedIn, wandbApi>>
           ELSE /\ syncResult' = IF st.err # None THEN <<"raise", The(st.err)>>
                                  ELSE <<"return", "wandb log completed successfully">>
                /\ syncLog' = st.log
                /\ runs' = st.runs
                /\ loggedIn' = st.loggedIn
                /\ wandbApi' = st.wandbApi
    /\ UNCHANGED <<ftData, chatVars, modVars>>

\* What wandb.login() can return; it is called only while not logged in.
LoginResults == IF loggedIn THEN {TRUE} ELSE BOOLEAN

NextLogger ==
    \E id \in SyncIds, n_jobs \in SyncNJobs, force \in BOOLEAN,
       loginOk \in LoginResults :
        Sync(id, n_jobs, force, loginOk)

SpecLogger == InitWithJobs /\ [][NextLogger]_vars

\* =================================================================== claims

TryAgainOutcome == <<"raise", "TryAgain">>

\* C1: with timeout None, while every dispatcher invocation of create has
\* raised TryAgain the call has not ended, and once the dispatcher raised
\* TryAgain on exactly its first n invocations and returned a value on the
\* next, create has returned that value after exactly n+1 invocations.
C1_RetriesUntilSuccess ==
    LET c == "create" IN
    (pc[c] # "idle" /\ args[c].timeout = None) =>
        /\ (\A i \in 1..Len(outs[c]) : outs[c][i] = TryAgainOutcome)
              => pc[c] # "done" /\ result[c] = <<"none", "none">>
        /\ \A n \in 0..(Len(outs[c]) - 1) :
              (/\ \A i \in 1..n : outs[c][i] = TryAgainOutcome
               /\ outs[c][n + 1][1] = "return")
              => /\ pc[c] = "done"
                 /\ result[c] = outs[c][n + 1]
                 /\ Len(outs[c]) = n + 1
                 /\ Len(sent[c]) = n + 1

\* create, without a timeout, returned a value after two TryAgains.
C1_Witness ==
    /\ pc["create"] = "done"
    /\ args["create"].timeout = None
    /\ outs["create"] = <<TryAgainOutcome, TryAgainOutcome, <<"return", "resp-2">>>>
    /\ result["create"] = <<"return", "resp-2">>

\* C2: with timeout T, create raises TryAgain only at a TryAgain observed
\* when the clock reads more than start + T; at every TryAgain observed
\* with the clock at or below start + T it goes on to retry.
C2_RaisesOnlyPastDeadline ==
    LET c == "create" IN
    (pc[c] # "idle" /\ args[c].timeout # None) =>
        LET T == The(args[c].timeout)
            raised == pc[c] = "done" /\ result[c] = TryAgainOutcome
        IN  /\ \A j \in 2..Len(reads[c]) :
                  (reads[c][j] > start[c] + T) <=> (raised /\ j = Len(reads[c]))
            /\ raised => Len(reads[c]) >= 2
            /\ Len(reads[c]) =
                  1 + Cardinality({i \in 1..Len(outs[c]) : outs[c][i] = TryAgainOutcome})
                    - (IF pc[c] = "except" THEN 1 ELSE 0)

\* create retried a TryAgain observed exactly at start + T, then raised the
\* next one, observed past the deadline.
C2_Witness ==
    LET c == "create" IN
    /\ pc[c] = "done" /\ result[c] = TryAgainOutcome
    /\ args[c].timeout = Some(1)
    /\ Len(reads[c]) = 3
    /\ reads[c][2] = start[c] + 1
    /\ reads[c][3] = start[c] + 2

\* C3: an error other than TryAgain raised by a dispatcher invocation ends
\* create and acreate at once with that error: it is the last invocation.
C3_OtherErrorsPropagate ==
    \A c \in Calls : \A i \in 1..Len(outs[c]) :
        (outs[c][i][1] = "raise" /\ outs[c][i][2] \in OtherErrors)
        => /\ i = Len(outs[c])
           /\ Len(sent[c]) = i
           /\ pc[c] = "done"
           /\ result[c] = outs[c][i]

\* acreate, with a timeout, retried two TryAgains, then raised the
\* AuthenticationError of the third invocation.
C3_Witness ==
    LET c == "acreate" IN
    /\ pc[c] = "done"
    /\ args[c].timeout # None
    /\ outs[c] = <<TryAgainOutcome, TryAgainOutcome, <<"raise", "AuthenticationError">>>>
    /\ result[c] = <<"raise", "AuthenticationError">>

\* C5: between a dispatcher invocation that raised TryAgain and the next
\* dispatcher invocation the call suspends (a sleep or a yield).
C5_SuspendsBetweenAttempts ==
    \A c \in Calls : \A i, j \in 1..Len(events[c]) :
        (i < j /\ events[c][i] = "TryAgain" /\ events[c][j] = "dispatch")
        => \E k \in (i + 1)..(j - 1) : events[c][k] \in {"sleep", "yield"}

\* C5 (amended): the call does not suspend between attempts: what follows a
\* TryAgain raised by the dispatcher is either the raise that ends the call
\* or log_info and then, with nothing in between, the next dispatcher
\* invocation; the call blocks or yields only inside an invocation.
C5_RetriesAtOnce ==
    \A c \in Calls : \A i \in 1..Len(events[c]) :
        events[c][i] = "TryAgain"
        => /\ i + 1 <= Len(events[c]) => events[c][i + 1] \in {"log_info", "raise"}
           /\ i + 2 <= Len(events[c]) => events[c][i + 2] = "dispatch"

\* create retried a TryAgain: log_info, then the next invocation.
C5_Witness ==
    LET ev == events["create"] IN
    /\ Len(ev) >= 5
    /\ ev[3] = "TryAgain" /\ ev[4] = "log_info" /\ ev[5] = "dispatch"

\* C7: given the same arguments, clock readings and dispatcher outcomes,
\* create and acreate make the same dispatcher invocations and end with the
\* same returned value or raised error.
C7_SurfacesAgree ==
    (pc["create"] = "done" /\ pc["acreate"] = "done")
    => /\ result["create"] = result["acreate"]
       /\ sent["create"] = sent["acreate"]
       /\ outs["create"] = outs["acreate"]
       /\ reads["create"] = reads["acreate"]

\* Both surfaces retried a TryAgain observed at the deadline and raised the
\* next one.
C7_Witness ==
    /\ pc["create"] = "done" /\ pc["acreate"] = "done"
    /\ args["create"] = args["acreate"]
    /\ args["create"].timeout = Some(1)
    /\ args["create"].model # None
    /\ reads["acreate"] = <<1, 2, 3>>
    /\ result["acreate"] = TryAgainOutcome
    /\ Len(sent["acreate"]) = 2

C10_CancelStopsRetries ==
    LET c == "acreate" IN
    \A i \in 1..Len(outs[c]) :
        outs[c][i] = <<"raise", "CancelledError">>
        => /\ i = Len(outs[c])
           /\ Len(sent[c]) = i
           /\ pc[c] = "done"
           /\ result[c] = <<"raise", "CancelledError">>

\* acreate, with a timeout, was cancelled at its third await, after two
\* retried TryAgains.
C10_Witness ==
    LET c == "acreate" IN
    /\ args[c].timeout # None
    /\ outs[c] = <<TryAgainOutcome, TryAgainOutcome, <<"raise", "CancelledError">>>>
    /\ pc[c] = "done"

\* The Moderation call was given a model that is neither None nor valid.
BadModelGiven ==
    /\ modPc # "idle"
    /\ modArgs.model # None
    /\ \A m \in modArgs.model : m \notin ValidModelNames

\* C4 as stated: a model that is neither None nor valid makes create and
\* acreate raise ConfigurationError with no request made and no instance used.
C4_RaisesConfigurationError ==
    BadModelGiven
    => /\ modPc = "done"
       /\ modResult = <<"raise", "ConfigurationError">>
       /\ modRequests = <<>>
       /\ modInstances = <<>>

\* C4 (amended): a model that is neither None nor valid makes create and
\* acreate raise ValueError with no request made and no instance used.
C4_RaisesValueError ==
    BadModelGiven
    => /\ modPc = "done"
       /\ modResult = <<"raise", "ValueError">>
       /\ modRequests = <<>>
       /\ modInstances = <<>>

\* A call with model "not-a-real-model" has ended.
C4_Witness ==
    /\ modArgs.model = Some("not-a-real-model")
    /\ modArgs.input = "some text"
    /\ modPc = "done"

\* C9: when a request of Moderation.create raised TryAgain, it was the
\* first and only request of the call, and the call has ended by raising
\* that TryAgain.
C9_ModerationNeverRetries ==
    \A i \in 1..Len(modOuts) :
        (modRequests[i].call = "request" /\ modOuts[i] = <<"raise", "TryAgain">>)
        => /\ i = 1
           /\ Len(modRequests) = 1
           /\ modPc = "done"
           /\ modResult = <<"raise", "TryAgain">>

\* Moderation.create raised TryAgain after its one request.
C9_Witness ==
    /\ modPc = "done"
    /\ Len(modRequests) = 1 /\ modRequests[1].call = "request"
    /\ modResult = <<"raise", "TryAgain">>

\* C6: with force=True, a sync that finds a succeeded job whose wandb run
\* already has the summary status "succeeded" starts a new run for that job.
C6_ForceOverwritesLoggedRun ==
    \A i \in 1..Len(syncLog) :
        (/\ syncArgs.force
         /\ syncLog[i][1] = "found" /\ syncLog[i][3] = "succeeded"
         /\ syncLog[i - 1] = Ev("job", syncLog[i][2], "succeeded"))
        => \E k \in (i + 1)..Len(syncLog) :
              syncLog[k] = Ev("init", syncLog[i][2], "finetune")

\* How call c must have ended, computed from its own timeout, its own clock
\* readings and its own dispatcher outcomes alone.
OwnResult(c) ==
    LET os == outs[c]
        rd == reads[c]
        timeout == args[c].timeout
    IN  IF os = <<>> THEN <<"none", "none">>
        ELSE IF os[Len(os)] # TryAgainOutcome THEN os[Len(os)]
        ELSE IF /\ timeout # None
                /\ Len(rd) = Len(os) + 1
                /\ rd[Len(rd)] > rd[1] + The(timeout)
             THEN TryAgainOutcome
             ELSE <<"none", "none">>

\* C11: in every interleaving of a create call and an acreate call, the
\* outcome of each call and the number of its dispatcher invocations are
\* those its own timeout, clock readings and dispatcher outcomes give,
\* whatever the other call has done.
C11_CallsDoNotInterfere ==
    \A c \in Calls :
        /\ result[c] = OwnResult(c)
        /\ (pc[c] = "done") <=> (result[c] # <<"none", "none">>)
        /\ Len(sent[c]) = Len(outs[c]) + (IF pc[c] = "inflight" THEN 1 ELSE 0)
        /\ pc[c] # "idle" => start[c] = reads[c][1]

\* The two calls ran interleaved, with different timeouts and start times:
\* create raised TryAgain past its deadline while acreate, started later
\* and without a timeout, is still retrying.
C11_Witness ==
    /\ args["create"].timeout = Some(0) /\ args["acreate"].timeout = None
    /\ start["create"] = 0 /\ start["acreate"] = 2
    /\ pc["create"] = "done" /\ result["create"] = TryAgainOutcome
    /\ Len(sent["create"]) = 2
    /\ pc["acreate"] = "inflight" /\ Len(sent["acreate"]) = 3

\* The TryAgains among the dispatcher outcomes of call c.
TryAgains(c) == {i \in 1..Len(outs[c]) : outs[c][i] = TryAgainOutcome}

\* C13: the timeout is not preemptive. A call that has ended has made at
\* least one dispatcher invocation, whatever its timeout; the clock is read
\* for the deadline only after a TryAgain, once per TryAgain at most; and a
\* value returned by the dispatcher is returned to the caller at once,
\* whatever the timeout and the clock.
C13_TimeoutNotPreemptive ==
    \A c \in Calls :
        /\ pc[c] = "done" => Len(sent[c]) >= 1 /\ Len(outs[c]) >= 1
        /\ pc[c] # "idle" => Len(reads[c]) <= 1 + Cardinality(TryAgains(c))
        /\ \A i \in 1..Len(outs[c]) :
              outs[c][i][1] = "return"
              => i = Len(outs[c]) /\ pc[c] = "done" /\ result[c] = outs[c][i]

\* create was called with a timeout of -1, so its deadline had passed when
\* it started; the dispatcher was invoked all the same, and the value it
\* returned (after start + timeout) was returned to the caller.
C13_Witness ==
    LET c == "create" IN
    /\ args[c].timeout = Some(-1)
    /\ pc[c] = "done"
    /\ Len(sent[c]) = 1
    /\ result[c] = <<"return", "resp-1">>

\* create has raised TryAgain to its caller.
RaisedTryAgain(c) == pc[c] = "done" /\ result[c] = TryAgainOutcome

\* C14: when the dispatcher eventually produces an outcome other than
\* TryAgain, or a timeout is set and the clock eventually passes
\* start + timeout, a call of create eventually ends; with timeout None it
\* never raises TryAgain, and it has not ended while every outcome of the
\* dispatcher was TryAgain.
C14_EndsWhenItCan ==
    /\ (pc["create"] # "idle") ~> (pc["create"] = "done")
    /\ [](args["create"].timeout = None => ~RaisedTryAgain("create"))
    /\ []((/\ pc["create"] # "idle"
            /\ args["create"].timeout = None
            /\ TryAgains("create") = 1..Len(outs["create"]))
           => pc["create"] # "done")

\* create, with a timeout, ended by raising the third TryAgain, once the
\* clock had passed its deadline.
C14_Witness ==
    LET c == "create" IN
    /\ RaisedTryAgain(c)
    /\ args[c].timeout = Some(1)
    /\ Len(sent[c]) = 3
    /\ reads[c][Len(reads[c])] > start[c] + 1

\* The positions of a call's events that are a log_info.
LogInfos(c) == {i \in 1..Len(events[c]) : events[c][i] = "log_info"}

\* The TryAgain outcomes after which the call went on to another attempt.
Retried(c) ==
    Cardinality(TryAgains(c))
        - (IF pc[c] = "except" \/ RaisedTryAgain(c) THEN 1 ELSE 0)

\* C15: an error raised to the caller is the error of the most recent
\* invocation of the dispatcher, and every TryAgain that was retried is
\* followed by exactly one log_info, which no other event is.
C15_RaisesLastErrorLogsEachRetry ==
    \A c \in Calls :
        /\ (pc[c] = "done" /\ result[c][1] = "raise")
              => result[c] = outs[c][Len(outs[c])]
        /\ Cardinality(LogInfos(c)) = Retried(c)
        /\ \A i \in LogInfos(c) : i > 1 /\ events[c][i - 1] = "TryAgain"
        /\ \A i \in 1..Len(events[c]) :
              (events[c][i] = "TryAgain" /\ i < Len(events[c]))
                  => events[c][i + 1] \in {"log_info", "raise"}

\* create retried two TryAgains, logging each, and raised the third.
C15_Witness ==
    LET c == "create" IN
    /\ RaisedTryAgain(c)
    /\ Cardinality(TryAgains(c)) = 3
    /\ Cardinality(LogInfos(c)) = 2

\* Moderation.create was called with a model it accepts.
GoodModelCreate ==
    /\ modPc \in {"request", "done"}
    /\ ~BadModelGiven
    /\ Len(modRequests) >= 1 /\ modRequests[1].call = "request"

\* C17: a call of Moderation.create whose model is None or a valid name makes
\* exactly one request, a "post" to "/moderations" whose parameters are the
\* input and, exactly when a model was given, that model; the call returns
\* or raises what the request did.
C17_OnePostToModerations ==
    /\ (modPc # "idle" /\ ~BadModelGiven) => Len(modRequests) = 1
    /\ GoodModelCreate =>
          LET r == modRequests[1] IN
          /\ r.method = "post"
          /\ r.url = "/moderations"
          /\ <<"input", modArgs.input>> \in r.params
          /\ \A kv \in r.params : kv[1] \in {"input", "model"}
          /\ (\E kv \in r.params : kv[1] = "model") <=> (modArgs.model # None)
          /\ \A m \in modArgs.model : <<"model", m>> \in r.params
          /\ Cardinality(r.params) = 1 + Cardinality(modArgs.model)
          /\ modPc = "done" => Len(modOuts) = 1 /\ modResult = modOuts[1]
          /\ modPc = "request" => modOuts = <<>> /\ modResult = <<"none", "none">>

\* Moderation.create, given no model, returned the value of its one request,
\* whose parameters hold the input only.
C17_Witness ==
    /\ GoodModelCreate
    /\ modPc = "done"
    /\ modArgs.model = None
    /\ modRequests[1].params = {<<"input", "some text">>}
    /\ modResult = <<"return", "resp-1">>

\* The last sync went through its list of jobs and returned.
SyncCompleted == syncResult = <<"return", "wandb log completed successfully">>

\* The ids of the jobs the last sync processed, in the order it took them.
RECURSIVE JobsOf(_)
JobsOf(log) ==
    IF log = <<>> THEN <<>>
    ELSE IF Head(log)[1] = "job" THEN <<Head(log)[2]>> \o JobsOf(Tail(log))
    ELSE JobsOf(Tail(log))

\* C12: a sync without id and with n_jobs = k that completed has processed
\* the last min(k, length) jobs of the list, oldest first, and no others,
\* for every k >= 0.
C12_ProcessesLastKJobs ==
    (/\ SyncCompleted
     /\ syncArgs.id = None
     /\ syncArgs.n_jobs # None)
    => LET data == The(ftData)
           n == Len(data)
           k == The(syncArgs.n_jobs)
           m == IF k < n THEN k ELSE n
       IN  JobsOf(syncLog) = [i \in 1..m |-> data[n - m + i].id]

\* The job with id j, as the API lists it.
JobOf(j) == CHOOSE ft \in {The(ftData)[i] : i \in 1..Len(The(ftData))} : ft.id = j

\* C16: whatever id, n_jobs and force are, a sync starts a wandb run and sets
\* the summary status to "succeeded" only for jobs whose status is
\* "succeeded".
C16_LogsOnlySucceededJobs ==
    \A i \in 1..Len(syncLog) :
        syncLog[i][1] \in {"init", "status"}
            => JobOf(syncLog[i][2]).status = "succeeded"

\* The last sync did something of these kinds for job j.
Did(log, j, kinds) == \E i \in 1..Len(log) : log[i][2] = j /\ log[i][1] \in kinds

\* C18: a sync with force=False, of a job whose wandb run is marked as
\* succeeded, starts no run, downloads no file, logs no artifact and leaves
\* the run as it is.
C18_SyncIdempotentPerJob ==
    [][\A j \in JobIds :
          (runs[j] = "succeeded" /\ ~syncArgs'.force)
              => /\ runs'[j] = "succeeded"
                 /\ ~Did(syncLog', j, {"init", "download", "use_artifact",
                                       "log_artifact", "status", "finish"})]_vars

\* A second sync, without force, found the run of job 1 marked as succeeded
\* and left it at that.
C18_Witness ==
    /\ syncCount = 2
    /\ ~syncArgs.force
    /\ Did(syncLog, 1, {"found"})
    /\ Ev("found", 1, "succeeded") \in {syncLog[i] : i \in 1..Len(syncLog)}
    /\ ~Did(syncLog, 1, {"init"})
    /\ runs[1] = "succeeded"

\* C19: when the last sync has started a run for a succeeded job that lacks
\* its training file or its validation file, it has logged the job-details
\* artifact, set the summary status to "succeeded" and finished the run.
C19_CompletesWithoutInputFile ==
    \A i \in 1..Len(syncLog) :
        LET j == syncLog[i][2] IN
        (/\ syncLog[i][1] = "init"
         /\ JobOf(j).status = "succeeded"
         /\ (JobOf(j).training_files = <<>> \/ JobOf(j).validation_files = <<>>))
        => /\ Did(syncLog, j, {"log_artifact"})
           /\ Did(syncLog, j, {"status"})
           /\ Did(syncLog, j, {"finish"})
           /\ runs[j] = "succeeded"
====
